---- MODULE Spec2Model ----
(***************************************************************************)
(* A model of src/adversarial.py: the adversarial trainer train_adv and    *)
(* the bi-level trainer meta_train_adv.                                    *)
(*                                                                         *)
(* A parameter group's value is abstracted to the number of optimizer      *)
(* updates applied to it; a gradient buffer is the set of backward passes  *)
(* that have accumulated into it since it was last cleared.  Accuracies    *)
(* are integers on the scale 0..MaxAcc, perturbation strengths are         *)
(* numerators over 255, entropies are in thousandths of a nat.             *)
(***************************************************************************)
EXTENDS Integers, Sequences, FiniteSets

\* ---------------------------------------------------------------- bounds
MaxEpochs == 2
MaxTrain == 2
MaxVal == 2
MaxAcc == 1
MaxDim == 2

\* ------------------------------------------------------------ parameters
\* The model's parameter groups; "other" stands for any parameter that
\* neither optimizer of meta_train_adv is given.
Params == {"gen", "fc_mu", "fc_sigma", "proto", "fc_b", "reg_term", "other"}

InnerScopeWholeNoise == {"gen", "fc_mu", "fc_sigma", "fc_b", "proto"}

InnerScope == {"gen", "fc_mu", "fc_sigma", "proto"}

OuterScope == {"fc_b", "reg_term"}

\* Adam(model.parameters()) of train_adv
StdScope == Params

\* ------------------------------------------------------- epsilon choice
\* np.random.choice([8/255, 16/255, 32/255, 64/255, 128/255]), as numerators
RandEpsilons == {8, 16, 32, 64, 128}

\* The values args['epsilon'] is drawn from: the float 0.1 (~ 26/255), the
\* int 1 (= 255/255), the strings 'rand' and 'none', and None.
EpsilonConfigs ==
    { [kind |-> "float", val |-> 26],
      [kind |-> "int", val |-> 255],
      [kind |-> "str", val |-> 0], [kind |-> "str", val |-> 1],
      [kind |-> "none", val |-> 0] }

\* the string 'rand' is [kind |-> "str", val |-> 0]
IsRandSentinel(e) == e.kind = "str" /\ e.val = 0

\* isinstance(args['epsilon'], float)
IsFloatAnyNumber(e) == e.kind \in {"float", "int"}

IsFloat(e) == e.kind = "float"

NoCall == [called |-> FALSE, has_eps |-> FALSE, eps |-> 0]

\* The attack calls the selection can make: attack(model, data, target
\* [, epsilon=...]).
SelectEpsilon(e) ==
    IF IsFloat(e) THEN { [called |-> TRUE, has_eps |-> TRUE, eps |-> e.val] }
    ELSE IF IsRandSentinel(e)
         THEN { [called |-> TRUE, has_eps |-> TRUE, eps |-> r] :
                    r \in RandEpsilons }
         ELSE { [called |-> TRUE, has_eps |-> FALSE, eps |-> 0] }

\* ------------------------------------------------------ entropy penalty
\* (1 + math.log(2 * math.pi)) / 2 = 1.41894, in thousandths
HalfLog2PiE == 1419

\* The values args['var_threshold'] is drawn from
VarThresholds == {1, 2, 3}

\* math.log on VarThresholds, in thousandths (ln 2 = 0.693, ln 3 = 1.099)
Log(v) == CASE v = 1 -> 0 [] v = 2 -> 693 [] v = 3 -> 1099

\* noise_entropy_threshold
NoiseEntropyThreshold(v) == Log(v) + HalfLog2PiE

\* The values an element of model.noise.dist.entropy() is drawn from: at,
\* just below and just above each threshold, and far away on both sides.
EntropyLevels ==
    UNION { {NoiseEntropyThreshold(v) - 1, NoiseEntropyThreshold(v),
             NoiseEntropyThreshold(v) + 1} : v \in VarThresholds }
      \cup {-2000, 5000}

EntropyTensors == UNION { [1..n -> EntropyLevels] : n \in 1..MaxDim }

ReluNoClamp(x) == x

\* torch.relu
Relu(x) == IF x > 0 THEN x ELSE 0

RECURSIVE SumSeq(_)
SumSeq(s) == IF s = <<>> THEN 0 ELSE Head(s) + SumSeq(Tail(s))

\* torch.relu(noise_entropy_threshold - entropy).mean(), as the exact
\* fraction num / den
Penalty(thr, ent) ==
    [num |-> SumSeq([i \in 1..Len(ent) |-> Relu(thr - ent[i])]),
     den |-> Len(ent)]

\* ----------------------------------------------------------------- state
VARIABLES
    trainer,        \* "std": train_adv runs, "meta": meta_train_adv runs
    args,           \* the configuration: num_epochs, epsilon
    nTrain,         \* batches train_loader yields per pass
    nVal,           \* batches val_loader yields per pass
    pc,             \* the position in the procedure
    raised,         \* the exception propagated to the caller, or "none"
    epoch,          \* epochs completed
    batch,          \* training batches fetched in the current epoch
    val_pos,        \* batches val_iter has yielded since it was created
    data_outer,     \* index in val_loader of the batch bound to data_outer
    param,          \* parameter group -> number of updates applied
    grad,           \* parameter group -> backward passes accumulated
    opt_steps,      \* optimizer -> number of step() calls made
    attack_call,    \* the arguments of the latest attack call
    best_test_acc,
    train_accuracy,
    test_accuracy,
    b_hist,
    reg_term_hist,
    ckpt,           \* the file ckpt.pt
    ckpt_best,      \* the file ckpt_best.pt
    best_saves,     \* number of writes of ckpt_best.pt
    end_states,     \* the model state at the end of each completed epoch
    stats,          \* the .npy files written at the end of the run
    var_threshold,  \* args['var_threshold']
    entropy,        \* model.noise.dist.entropy()
    noise_entropy   \* the entropy penalty of the latest loss

vars == <<trainer, args, nTrain, nVal, pc, raised, epoch, batch, val_pos,
          data_outer, param, grad, opt_steps, attack_call, best_test_acc,
          train_accuracy, test_accuracy, b_hist, reg_term_hist, ckpt,
          ckpt_best, best_saves, end_states, stats, var_threshold, entropy,
          noise_entropy>>

config == <<trainer, args, nTrain, nVal, var_threshold>>

loop == <<epoch, batch>>

cursor == <<val_pos, data_outer>>

bookkeeping == <<best_test_acc, train_accuracy, test_accuracy, b_hist,
                 reg_term_hist, ckpt, ckpt_best, best_saves, end_states,
                 stats>>

penalty == <<entropy, noise_entropy>>

AccLevels == 0..MaxAcc

NoFile == [exists |-> FALSE, state |-> [p \in Params |-> 0]]

StatFiles == {"train_acc", "test_acc", "b_hist", "reg_term_hist"}

InitialBest == -1

AttackTag == [loss |-> "attack", n |-> 0]

LossTag(opt) == [loss |-> opt, n |-> opt_steps[opt] + 1]

Init ==
    /\ trainer \in {"std", "meta"}
    /\ args \in [num_epochs : 1..MaxEpochs, epsilon : EpsilonConfigs]
    /\ nTrain \in 1..MaxTrain
    /\ nVal \in IF trainer = "meta" THEN 0..MaxVal ELSE {0}
    /\ pc = "epoch_loop"
    /\ raised = "none"
    /\ epoch = 0
    /\ batch = 0
    /\ val_pos = 0
    /\ data_outer = 0
    /\ param = [p \in Params |-> 0]
    /\ grad = [p \in Params |-> {}]
    /\ opt_steps = [o \in {"std", "inner", "outer"} |-> 0]
    /\ attack_call = NoCall
    /\ best_test_acc = InitialBest
    /\ train_accuracy = <<>>
    /\ test_accuracy = <<>>
    /\ b_hist = <<>>
    /\ reg_term_hist = <<>>
    /\ ckpt = NoFile
    /\ ckpt_best = NoFile
    /\ best_saves = 0
    /\ end_states = <<>>
    /\ stats = [f \in {} |-> <<>>]
    /\ var_threshold = 1
    /\ entropy = <<>>
    /\ noise_entropy = [num |-> 0, den |-> 1]

\* --------------------------------------------------------- step helpers
\* attack(model, data, target[, epsilon]): the strength is selected, and the
\* attack, a black box, may run a backward pass of its own through the model.
Attack(to) ==
    /\ \E c \in SelectEpsilon(args.epsilon) : attack_call' = c
    /\ \E deposits \in BOOLEAN :
          grad' = IF deposits
                  THEN [p \in Params |-> grad[p] \cup {AttackTag}]
                  ELSE grad
    /\ pc' = to
    /\ UNCHANGED <<config, raised, loop, cursor, param, opt_steps,
                   bookkeeping, penalty>>

\* optimizer.zero_grad()
ZeroGrad(scope) == [p \in Params |-> IF p \in scope THEN {} ELSE grad[p]]

\* model.train(), normalization, the two forward passes, zero_grad()
ForwardZeroGrad(scope, to) ==
    /\ grad' = ZeroGrad(scope)
    /\ pc' = to
    /\ UNCHANGED <<config, raised, loop, cursor, param, opt_steps,
                   attack_call, bookkeeping, penalty>>

\* the loss is computed and loss.backward() accumulates into every parameter;
\* the value of the loss is not tracked here (its entropy penalty is the
\* subject of SpecPenalty below)
LossBackward(opt, to) ==
    /\ grad' = [p \in Params |-> grad[p] \cup {LossTag(opt)}]
    /\ pc' = to
    /\ UNCHANGED <<config, raised, loop, cursor, param, opt_steps,
                   attack_call, bookkeeping, penalty>>

\* Adam.step(): every parameter of the optimizer that has a gradient moves
Step(opt, scope, to) ==
    /\ param' = [p \in Params |->
                   IF p \in scope /\ grad[p] # {} THEN param[p] + 1
                   ELSE param[p]]
    /\ opt_steps' = [opt_steps EXCEPT ![opt] = @ + 1]
    /\ pc' = to
    /\ UNCHANGED <<config, raised, loop, cursor, grad, attack_call,
                   bookkeeping, penalty>>

EpochLoopOneMore(t) ==
    /\ trainer = t
    /\ pc = "epoch_loop"
    /\ \/ /\ epoch <= args.num_epochs
          /\ batch' = 0
          /\ pc' = "train_loop"
       \/ /\ epoch > args.num_epochs
          /\ batch' = batch
          /\ pc' = "save_stats"
    /\ UNCHANGED <<config, raised, epoch, cursor, param, grad, opt_steps,
                   attack_call, bookkeeping, penalty>>

\* for epoch in range(args['num_epochs'])
EpochLoop(t) ==
    /\ trainer = t
    /\ pc = "epoch_loop"
    /\ \/ /\ epoch < args.num_epochs
          /\ batch' = 0
          /\ pc' = "train_loop"
       \/ /\ epoch >= args.num_epochs
          /\ batch' = batch
          /\ pc' = "save_stats"
    /\ UNCHANGED <<config, raised, epoch, cursor, param, grad, opt_steps,
                   attack_call, bookkeeping, penalty>>

\* for data, target in train_loader
TrainLoop(t, first) ==
    /\ trainer = t
    /\ pc = "train_loop"
    /\ \/ /\ batch < nTrain
          /\ batch' = batch + 1
          /\ pc' = first
       \/ /\ batch >= nTrain
          /\ batch' = batch
          /\ pc' = "epoch_end"
    /\ UNCHANGED <<config, raised, epoch, cursor, param, grad, opt_steps,
                   attack_call, bookkeeping, penalty>>

IsNewBestOrEqual(acc, best) == acc >= best

\* test_accuracy[-1] > best_test_acc
IsNewBest(acc, best) == acc > best

\* model.state_dict() written by torch.save
StateDict == [exists |-> TRUE, state |-> param]

\* model.get_b_vector(): the current value of the bias head
GetBVector == param["fc_b"]

\* model.get_reg_term(): the current value of the regularization term
GetRegTerm == param["reg_term"]

LatestCkptOnlyWhenBest(acc) == IF IsNewBest(acc, best_test_acc) THEN StateDict ELSE ckpt

\* torch.save(model.state_dict(), .../ckpt.pt)
LatestCkpt(acc) == StateDict

\* the bookkeeping both trainers do after the last batch of an epoch
EpochBookkeeping(tr, te) ==
    /\ train_accuracy' = Append(train_accuracy, tr)
    /\ test_accuracy' = Append(test_accuracy, te)
    /\ ckpt' = LatestCkpt(te)
    /\ IF IsNewBest(te, best_test_acc)
       THEN /\ best_test_acc' = te
            /\ ckpt_best' = StateDict
            /\ best_saves' = best_saves + 1
       ELSE UNCHANGED <<best_test_acc, ckpt_best, best_saves>>
    /\ end_states' = Append(end_states, param)
    /\ epoch' = epoch + 1
    /\ pc' = "epoch_loop"
    /\ UNCHANGED <<config, raised, batch, cursor, param, grad, opt_steps,
                   attack_call, stats, penalty>>

\* np.save of the histories
SaveStats(files) ==
    /\ pc = "save_stats"
    /\ stats' = [f \in files |->
                   CASE f = "train_acc" -> train_accuracy
                     [] f = "test_acc" -> test_accuracy
                     [] f = "b_hist" -> b_hist
                     [] f = "reg_term_hist" -> reg_term_hist]
    /\ pc' = "done"
    /\ UNCHANGED <<config, raised, loop, cursor, param, grad, opt_steps,
                   attack_call, best_test_acc, train_accuracy, test_accuracy,
                   b_hist, reg_term_hist, ckpt, ckpt_best, best_saves,
                   end_states, penalty>>

\* ------------------------------------------------------------- train_adv
StdEpochLoop == EpochLoop("std")

StdTrainLoop == TrainLoop("std", "std_attack")

StdAttack == pc = "std_attack" /\ Attack("std_forward")

StdForwardZeroGrad == pc = "std_forward" /\ ForwardZeroGrad(StdScope, "std_loss")

StdLossBackward == pc = "std_loss" /\ LossBackward("std", "std_step")

StdStep == pc = "std_step" /\ Step("std", StdScope, "train_loop")

StdEpochEnd ==
    /\ trainer = "std"
    /\ pc = "epoch_end"
    /\ \E tr \in AccLevels, te \in AccLevels : EpochBookkeeping(tr, te)
    /\ UNCHANGED <<b_hist, reg_term_hist>>

StdSaveStats == trainer = "std" /\ SaveStats({"train_acc", "test_acc"})

\* -------------------------------------------------------- meta_train_adv
MetaEpochLoopNewCursor ==
    /\ trainer = "meta"
    /\ pc = "epoch_loop"
    /\ \/ /\ epoch < args.num_epochs
          /\ batch' = 0
          /\ val_pos' = 0
          /\ pc' = "train_loop"
       \/ /\ epoch >= args.num_epochs
          /\ batch' = batch
          /\ val_pos' = val_pos
          /\ pc' = "save_stats"
    /\ UNCHANGED <<config, raised, epoch, data_outer, param, grad, opt_steps,
                   attack_call, bookkeeping, penalty>>

MetaEpochLoop == EpochLoop("meta")

MetaTrainLoop == TrainLoop("meta", "inner_attack")

InnerAttack == pc = "inner_attack" /\ Attack("inner_forward")

InnerForwardNoZeroGrad ==
    pc = "inner_forward" /\ ForwardZeroGrad({}, "inner_loss")

InnerForwardZeroGrad ==
    pc = "inner_forward" /\ ForwardZeroGrad(InnerScope, "inner_loss")

InnerLossBackward == pc = "inner_loss" /\ LossBackward("inner", "inner_step")

InnerStepThenNextBatch ==
    pc = "inner_step" /\ Step("inner", InnerScope, "train_loop")

InnerStep == pc = "inner_step" /\ Step("inner", InnerScope, "next_val")

NextValNoReset ==
    /\ pc = "next_val"
    /\ IF val_pos < nVal
       THEN /\ data_outer' = val_pos
            /\ val_pos' = val_pos + 1
            /\ pc' = "outer_attack"
            /\ raised' = raised
       ELSE /\ pc' = "error"
            /\ raised' = "StopIteration"
            /\ UNCHANGED cursor
    /\ UNCHANGED <<config, loop, param, grad, opt_steps, attack_call,
                   bookkeeping, penalty>>

\* try: next(val_iter); except StopIteration: val_iter = iter(val_loader);
\* next(val_iter)
NextVal ==
    /\ pc = "next_val"
    /\ \/ /\ val_pos < nVal
          /\ data_outer' = val_pos
          /\ val_pos' = val_pos + 1
          /\ pc' = "outer_attack"
          /\ raised' = raised
       \/ /\ val_pos >= nVal
          /\ 0 < nVal
          /\ data_outer' = 0
          /\ val_pos' = 1
          /\ pc' = "outer_attack"
          /\ raised' = raised
       \/ /\ val_pos >= nVal
          /\ nVal = 0
          /\ val_pos' = 0
          /\ data_outer' = data_outer
          /\ pc' = "error"
          /\ raised' = "StopIteration"
    /\ UNCHANGED <<config, loop, param, grad, opt_steps, attack_call,
                   bookkeeping, penalty>>

OuterAttack == pc = "outer_attack" /\ Attack("outer_forward")

OuterForwardZeroGrad ==
    pc = "outer_forward" /\ ForwardZeroGrad(OuterScope, "outer_loss")

OuterLossBackward == pc = "outer_loss" /\ LossBackward("outer", "outer_step")

OuterStep == pc = "outer_step" /\ Step("outer", OuterScope, "train_loop")

MetaEpochEnd ==
    /\ trainer = "meta"
    /\ pc = "epoch_end"
    /\ \E tr \in AccLevels, te \in AccLevels : EpochBookkeeping(tr, te)
    /\ b_hist' = Append(b_hist, GetBVector)
    /\ reg_term_hist' = Append(reg_term_hist, GetRegTerm)

MetaSaveStats == trainer = "meta" /\ SaveStats(StatFiles)

Next ==
    \/ StdEpochLoop \/ StdTrainLoop \/ StdAttack \/ StdForwardZeroGrad
    \/ StdLossBackward \/ StdStep \/ StdEpochEnd \/ StdSaveStats
    \/ MetaEpochLoop \/ MetaTrainLoop \/ InnerAttack \/ InnerForwardZeroGrad
    \/ InnerLossBackward \/ InnerStep \/ NextVal \/ OuterAttack
    \/ OuterForwardZeroGrad \/ OuterLossBackward \/ OuterStep
    \/ MetaEpochEnd \/ MetaSaveStats

Spec == Init /\ [][Next]_vars

\* ------------------------------------------- the entropy penalty, alone
\* The penalty of one loss computation, for every threshold and entropy
\* tensor of the bounded sets.
PenaltyInit ==
    /\ trainer = "std"
    /\ args = [num_epochs |-> 1, epsilon |-> [kind |-> "none", val |-> 0]]
    /\ nTrain = 1
    /\ nVal = 0
    /\ pc = "std_loss"
    /\ raised = "none"
    /\ epoch = 0
    /\ batch = 1
    /\ val_pos = 0
    /\ data_outer = 0
    /\ param = [p \in Params |-> 0]
    /\ grad = [p \in Params |-> {}]
    /\ opt_steps = [o \in {"std", "inner", "outer"} |-> 0]
    /\ attack_call = [called |-> TRUE, has_eps |-> FALSE, eps |-> 0]
    /\ best_test_acc = InitialBest
    /\ train_accuracy = <<>>
    /\ test_accuracy = <<>>
    /\ b_hist = <<>>
    /\ reg_term_hist = <<>>
    /\ ckpt = NoFile
    /\ ckpt_best = NoFile
    /\ best_saves = 0
    /\ end_states = <<>>
    /\ stats = [f \in {} |-> <<>>]
    /\ var_threshold \in VarThresholds
    /\ entropy \in EntropyTensors
    /\ noise_entropy = [num |-> 0, den |-> 1]

\* noise_entropy = torch.relu(noise_entropy_threshold - entropy).mean()
NoiseEntropy ==
    /\ pc = "std_loss"
    /\ noise_entropy' = Penalty(NoiseEntropyThreshold(var_threshold), entropy)
    /\ pc' = "std_step"
    /\ UNCHANGED <<config, raised, loop, cursor, param, grad, opt_steps,
                   attack_call, bookkeeping, entropy>>

SpecPenalty == PenaltyInit /\ [][NoiseEntropy]_vars

\* ---------------------------------------------------------------- claims
InnerPcs == {"inner_attack", "inner_forward", "inner_loss", "inner_step"}

OuterPcs == {"outer_attack", "outer_forward", "outer_loss", "outer_step"}

IsPrefix(s, t) == Len(s) <= Len(t) /\ \A i \in 1..Len(s) : s[i] = t[i]

\* the first epoch whose test accuracy is the greatest of the history
EarliestMax(h) ==
    CHOOSE i \in 1..Len(h) :
        /\ \A j \in 1..Len(h) : h[j] <= h[i]
        /\ \A j \in 1..(i - 1) : h[j] < h[i]

\* C1: in meta_train_adv a step of the inner optimizer changes no parameter
\* of {fc_b, reg_term}, a step of the outer optimizer changes no parameter of
\* {gen, fc_mu, fc_sigma, proto}, and a parameter in neither scope is never
\* changed.
C1_ScopesAreFramed ==
    [][trainer = "meta" =>
        /\ opt_steps'["inner"] # opt_steps["inner"] =>
               \A p \in {"fc_b", "reg_term"} : param'[p] = param[p]
        /\ opt_steps'["outer"] # opt_steps["outer"] =>
               \A p \in {"gen", "fc_mu", "fc_sigma", "proto"} :
                   param'[p] = param[p]
        /\ param'["other"] = param["other"]]_vars

C1_BothStepped ==
    /\ trainer = "meta"
    /\ opt_steps["inner"] >= 1 /\ opt_steps["outer"] >= 1
    /\ \A p \in InnerScope \cup OuterScope : param[p] >= 1
    /\ grad["other"] # {} /\ param["other"] = 0

\* C2: in both trainers the best checkpoint is written at an epoch's end if
\* and only if the epoch's test accuracy is strictly greater than that of
\* every previous epoch, it is written at no other time, and best_test_acc
\* never decreases.
C2_BestIffStrictlyGreater ==
    [][/\ best_test_acc' >= best_test_acc
       /\ best_saves' \in {best_saves, best_saves + 1}
       /\ best_saves' = best_saves + 1 <=>
             /\ Len(test_accuracy') = Len(test_accuracy) + 1
             /\ \A i \in 1..Len(test_accuracy) :
                    test_accuracy'[Len(test_accuracy')] > test_accuracy[i]]_vars

C2_TieNotRewritten ==
    /\ Len(test_accuracy) = 2
    /\ test_accuracy[1] = test_accuracy[2]
    /\ best_saves = 1
    /\ ckpt_best.state = end_states[1]
    /\ ckpt.state = end_states[2]

OuterBatchValid == pc \in OuterPcs => data_outer \in 0..(nVal - 1)

\* C3 as stated: whatever the length of the validation source, every outer
\* step has a validation batch and StopIteration never reaches the caller.
C3_NeverExhausted == raised # "StopIteration" /\ OuterBatchValid

\* C3, amended: when the validation source yields at least one batch, every
\* outer step has a validation batch of the source and StopIteration never
\* reaches the caller, however many training batches an epoch has.
C3_NeverExhaustedIfNonEmpty ==
    nVal >= 1 => (raised = "none" /\ pc # "error" /\ OuterBatchValid)

C3_ShortSourceWrapped ==
    /\ nVal = 1 /\ nTrain = MaxTrain
    /\ pc = "outer_attack"
    /\ opt_steps["outer"] >= 1
    /\ epoch = 0

HistoryLengths ==
    /\ Len(train_accuracy) = epoch
    /\ Len(test_accuracy) = epoch
    /\ trainer = "meta" => Len(b_hist) = epoch /\ Len(reg_term_hist) = epoch
    /\ pc \in {"save_stats", "done"} => epoch = args.num_epochs
    /\ pc = "done" =>
          /\ Len(stats["train_acc"]) = args.num_epochs
          /\ Len(stats["test_acc"]) = args.num_epochs
          /\ trainer = "meta" =>
                /\ Len(stats["b_hist"]) = args.num_epochs
                /\ Len(stats["reg_term_hist"]) = args.num_epochs

C5_NumericIsPassed ==
    attack_call.called =>
        IF args.epsilon.kind \in {"float", "int"}
        THEN attack_call.has_eps /\ attack_call.eps = args.epsilon.val
        ELSE IF args.epsilon = [kind |-> "str", val |-> 0]
             THEN attack_call.has_eps /\ attack_call.eps \in {8, 16, 32, 64, 128}
             ELSE ~attack_call.has_eps

\* C5, amended: an epsilon that is a float is passed to the attack, 'rand'
\* passes a value of {8, 16, 32, 64, 128}/255, and anything else, a number
\* that is not a float (an int) included, passes no strength.
C5_FloatIsPassed ==
    attack_call.called =>
        IF args.epsilon.kind = "float"
        THEN attack_call.has_eps /\ attack_call.eps = args.epsilon.val
        ELSE IF args.epsilon = [kind |-> "str", val |-> 0]
             THEN attack_call.has_eps /\ attack_call.eps \in {8, 16, 32, 64, 128}
             ELSE ~attack_call.has_eps

C5_IntGetsNoStrength ==
    /\ args.epsilon.kind = "int"
    /\ pc = "outer_forward"
    /\ attack_call.called /\ ~attack_call.has_eps

\* C6: from the end of the first epoch on, ckpt.pt holds the model state of
\* the end of the latest completed epoch and ckpt_best.pt exists and holds
\* that of the earliest epoch with the greatest test accuracy so far; after a
\* one-epoch run the two files hold the same state.
C6_CheckpointsTrackEpochs ==
    /\ epoch >= 1 =>
          /\ ckpt.exists /\ ckpt.state = end_states[epoch]
          /\ ckpt_best.exists
          /\ ckpt_best.state = end_states[EarliestMax(test_accuracy)]
    /\ (pc = "done" /\ args.num_epochs = 1) =>
          ckpt.exists /\ ckpt_best = ckpt

C6_BestIsEarlierEpoch ==
    /\ epoch = 2
    /\ pc = "epoch_loop"
    /\ test_accuracy[1] = test_accuracy[2]
    /\ ckpt_best.state = end_states[1]
    /\ ckpt.state # ckpt_best.state

\* C7: the penalty is zero when every element of the entropy is at or above
\* the threshold, strictly positive when some element is below it, and never
\* negative.
C7_PenaltyZeroIffAboveThreshold ==
    pc = "std_step" =>
        LET thr == NoiseEntropyThreshold(var_threshold)
            above == \A i \in 1..Len(entropy) : entropy[i] >= thr
        IN  /\ noise_entropy.den = Len(entropy)
            /\ noise_entropy.den > 0
            /\ noise_entropy.num >= 0
            /\ above => noise_entropy.num = 0
            /\ ~above => noise_entropy.num > 0

C7_EqualityGivesZero ==
    /\ pc = "std_step"
    /\ \E i \in 1..Len(entropy) :
           entropy[i] = NoiseEntropyThreshold(var_threshold)
    /\ \E i \in 1..Len(entropy) :
           entropy[i] > NoiseEntropyThreshold(var_threshold)
    /\ noise_entropy.num = 0

CursorFollowsOuterSteps ==
    /\ (trainer = "meta" /\ nVal >= 1 /\ pc \in OuterPcs) =>
          data_outer = opt_steps["outer"] % nVal
    /\ (opt_steps["outer"] = 0 /\ pc \notin OuterPcs) => val_pos = 0

\* C8: the k-th outer step of the run uses validation batch (k-1) mod V; the
\* cursor starts at the first batch, moves only when a batch is drawn (an
\* epoch boundary leaves it where it is), and goes back to the start only
\* when the source is exhausted.
C8_CursorRunsAcrossEpochs ==
    /\ []CursorFollowsOuterSteps
    /\ [][val_pos' # val_pos =>
             /\ pc = "next_val"
             /\ \/ val_pos' = val_pos + 1
                \/ val_pos = nVal /\ val_pos' = 1]_vars

C8_EpochStartsMidSource ==
    /\ trainer = "meta"
    /\ epoch = 1 /\ pc = "train_loop" /\ batch = 0
    /\ 0 < val_pos /\ val_pos < nVal

\* C9: in meta_train_adv inner and outer steps alternate, one of each per
\* training batch and the inner one first, and a completed run has made
\* num_epochs * (batches per epoch) of each.
C9_InnerThenOuterPerBatch ==
    trainer = "meta" =>
        LET i == opt_steps["inner"]
            o == opt_steps["outer"]
        IN  /\ pc = "epoch_loop" => i = epoch * nTrain /\ o = i
            /\ pc = "train_loop" => i = epoch * nTrain + batch /\ o = i
            /\ pc \in InnerPcs => i = epoch * nTrain + batch - 1 /\ o = i
            /\ pc \in OuterPcs \cup {"next_val", "error"} =>
                  i = epoch * nTrain + batch /\ o = i - 1
            /\ pc = "epoch_end" => i = (epoch + 1) * nTrain /\ o = i
            /\ pc \in {"save_stats", "done"} =>
                  i = args.num_epochs * nTrain /\ o = i

C9_AllStepsMade ==
    /\ trainer = "meta"
    /\ pc = "done"
    /\ args.num_epochs = MaxEpochs /\ nTrain = MaxTrain
    /\ opt_steps["inner"] = MaxEpochs * MaxTrain
    /\ opt_steps["outer"] = MaxEpochs * MaxTrain

\* C10: when optim_inner.step() runs, the gradient of every inner-scope
\* parameter holds the current batch's loss_inner and nothing else; when
\* optim_outer.step() runs, the gradient of every outer-scope parameter holds
\* the current loss_outer and nothing else.
C10_StepUsesOwnLossOnly ==
    trainer = "meta" =>
        /\ pc = "inner_step" =>
              \A p \in InnerScope :
                  grad[p] = {[loss |-> "inner", n |-> opt_steps["inner"] + 1]}
        /\ pc = "outer_step" =>
              \A p \in OuterScope :
                  grad[p] = {[loss |-> "outer", n |-> opt_steps["outer"] + 1]}

C10_OtherScopeHoldsLeftovers ==
    /\ pc = "inner_step"
    /\ opt_steps["inner"] = 1
    /\ [loss |-> "outer", n |-> 1] \in grad["fc_b"]
    /\ [loss |-> "inner", n |-> 2] \in grad["fc_b"]
    /\ AttackTag \in grad["reg_term"]
    /\ \A p \in InnerScope : grad[p] = {[loss |-> "inner", n |-> 2]}

====
